---- MODULE Spec2Model ----
(***************************************************************************)
(* rokuon-kun: the concurrent capture pipeline of src/record_page.rs.      *)
(*                                                                         *)
(* Three kinds of execution context are modelled:                          *)
(*   - the UI thread, which runs the button handlers (add slot, the group  *)
(*     record button, remove slot, device dropdown) one at a time and      *)
(*     blocks inside JoinHandle::join;                                     *)
(*   - one capture (supervisor) thread per thread::spawn, running the      *)
(*     closure of record_page.rs:103-290;                                  *)
(*   - the audio backend's frame callback of each open stream              *)
(*     (record_page.rs:176-236).                                           *)
(*                                                                         *)
(* Vec indices are 1-based here (Rust index i is i+1).  Arc objects        *)
(* (stop flags, waveform buffers) and threads are identified by numbers;   *)
(* a number is handed out again once nothing refers to the object it       *)
(* named (the Arc was dropped, the JoinHandle was consumed by join).  A    *)
(* frame is identified by its position in the stream (1 for the first      *)
(* frame delivered to a session), its samples by theirs.                   *)
(*                                                                         *)
(* A panic on the UI thread (Result::unwrap on a failed join, Vec::remove  *)
(* out of range) unwinds the thread that runs the event loop: the process  *)
(* ends, and with it every capture thread.                                 *)
(***************************************************************************)
EXTENDS Integers, Sequences, FiniteSets, TLC

\* ---------------------------------------------------------------- bounds
MaxSlots == 2
MaxThreads == 3
MaxFrames == 1
MaxDevices == 2
\* Bits in a float's significand (f32 has 24), binades the samples are
\* drawn from, and samples in an argument of compress_audio.
Precision == 3
ExpRange == 3
MaxSamples == 2
\* Samples in a frame, and frames in a session of the one-slot
\* specification.
FrameLen == 2
SessionFrames == 2
\* Seconds of the wall clock a session can start in.
MaxSeconds == 2

\* ------------------------------------------------------------- constants
None == 0
PrivateFlag == 0
Formats == {"Wave", "Pcm", "Flac"}

VARIABLES
    input_devices,      \* AppState.input_devices: the devices are 1..input_devices
    recording_devices,  \* AppState.recording_devices: Vec<RecordingDevice>
    stop_flags,         \* Vec<Arc<Mutex<bool>>>: the ids of the flag objects
    recorder_handles,   \* Vec<Option<JoinHandle<()>>>: None or a thread id
    flag_val,           \* the bool inside each allocated stop flag
    waveform,           \* the preview Vec inside each allocated waveform_data
    threads,            \* the spawned threads not joined yet, by thread id
    ui,                 \* where the UI thread is
    fx,                 \* a call of a function on samples: arguments and result
    files               \* the byte length of each .pcm file, by filename

vars == <<input_devices, recording_devices, stop_flags, recorder_handles,
          flag_val, waveform, threads, ui, fx, files>>

ArcIds == 1..MaxSlots
Tids == 1..MaxThreads

\* A thread id that thread::spawn has not used yet.
NoThread ==
    [pc |-> "none", device |-> 0, stop_flag |-> PrivateFlag, waveform |-> 0,
     format |-> "none", writer_open |-> FALSE, sink |-> <<>>, artifact |-> <<>>,
     finalize_runs |-> 0, finalize_failed |-> FALSE, cb_pc |-> "idle",
     delivered |-> 0, sup_locks |-> {}, cb_locks |-> {}, io_locks |-> {},
     second |-> 0, accepted |-> 0]

\* format!("{}-{}.wav" / ".pcm" / ".flac", now.format("%Y-%m-%d-%H-%M-%S"),
\* device_name.replace(" ", "_")): the second the session started in, the
\* device (devices have distinct names) and the format's extension
FileNames == [second : 1..MaxSeconds, device : 1..MaxDevices, format : Formats]
filename(r) == [second |-> r.second, device |-> r.device, format |-> r.format]

UiIdle == [pc |-> "idle", join |-> None, idxs |-> <<>>]

\* No call on samples is recorded.
NoCall == [op |-> "none"]

\* The preview Vec a new slot starts with: vec![0.0; 200], no frame in it.
InitialWaveform == 0

Init ==
    /\ input_devices \in 0..MaxDevices
    /\ recording_devices = <<>>
    /\ stop_flags = <<>>
    /\ recorder_handles = <<>>
    /\ flag_val = [a \in ArcIds |-> FALSE]
    /\ waveform = [a \in ArcIds |-> InitialWaveform]
    /\ threads = [t \in Tids |-> NoThread]
    /\ ui = UiIdle
    /\ fx = NoCall
    /\ files = [n \in FileNames |-> 0]

\* ------------------------------------------------------------ add slot
\* Mutant: the new slot counts as recording.
NewRecordingDeviceRecording(id) ==
    [device_index |-> 1, is_recording |-> TRUE, recording_start_time |-> FALSE,
     waveform_data |-> id]
\* RecordingDevice { device_index: 0, is_recording: false,
\*                   waveform_data: vec![0.0; 200], recording_start_time: None }
NewRecordingDevice(id) ==
    [device_index |-> 1, is_recording |-> FALSE, recording_start_time |-> FALSE,
     waveform_data |-> id]

\* The Arc ids something still refers to: a Vec element or a thread's clone.
UsedArcs(rd, sf, th) ==
    {rd[k].waveform_data : k \in 1..Len(rd)} \cup {sf[k] : k \in 1..Len(sf)}
        \cup {th[t].waveform : t \in Tids} \cup {th[t].stop_flag : t \in Tids}

FreeArcs(rd, sf, th) == ArcIds \ UsedArcs(rd, sf, th)
FreshArc(rd, sf, th) ==
    CHOOSE a \in FreeArcs(rd, sf, th) : \A b \in FreeArcs(rd, sf, th) : a <= b

AddPress ==
    /\ ui.pc = "idle"
    /\ Len(recording_devices) < MaxSlots
    /\ FreeArcs(recording_devices, stop_flags, threads) # {}
    /\ IF input_devices # 0
       THEN LET id == FreshArc(recording_devices, stop_flags, threads) IN
            /\ recording_devices' = Append(recording_devices, NewRecordingDevice(id))
            /\ recorder_handles' = Append(recorder_handles, None)
            /\ stop_flags' = Append(stop_flags, id)
            /\ flag_val' = [flag_val EXCEPT ![id] = FALSE]
            /\ waveform' = [waveform EXCEPT ![id] = InitialWaveform]
       ELSE UNCHANGED <<recording_devices, recorder_handles, stop_flags, flag_val,
                        waveform>>
    /\ UNCHANGED <<input_devices, threads, ui, fx, files>>

\* ------------------------------------------------ the UI thread's view
\* The values a handler works on: the three Vecs, the flag contents, the
\* spawned threads and the handler's own position.
Here ==
    [rd |-> recording_devices, sf |-> stop_flags, rh |-> recorder_handles,
     fv |-> flag_val, th |-> threads, ui |-> ui]

\* A thread that was spawned and not joined has created the file n.
HasOpen(th, n) == \E t \in Tids : th[t].second # 0 /\ filename(th[t]) = n

\* The handler's writes.  An Arc nothing refers to any more is dropped: its
\* contents are gone.  The length of a file is followed while a thread
\* that created it is there to be joined.
Commit(st) ==
    /\ recording_devices' = st.rd
    /\ stop_flags' = st.sf
    /\ recorder_handles' = st.rh
    /\ flag_val' = [a \in ArcIds |->
           IF a \in FreeArcs(st.rd, st.sf, st.th) THEN FALSE ELSE st.fv[a]]
    /\ waveform' = [a \in ArcIds |->
           IF a \in FreeArcs(st.rd, st.sf, st.th) THEN InitialWaveform ELSE waveform[a]]
    /\ threads' = st.th
    /\ ui' = st.ui
    /\ files' = [n \in FileNames |-> IF HasOpen(st.th, n) THEN files[n] ELSE 0]
    /\ UNCHANGED <<input_devices, fx>>

\* device_idxs of the one RecordingButton the page renders: 0..len.
AllIdxs(rd) == [i \in 1..Len(rd) |-> i]

\* Mutant: only the last index of the group is looked at.
is_last_recording(rd, device_idxs) ==
    /\ device_idxs # <<>>
    /\ device_idxs[Len(device_idxs)] <= Len(rd)
    /\ rd[device_idxs[Len(device_idxs)]].is_recording

\* Mutant: all() in place of any().
is_every_recording(rd, device_idxs) ==
    \A k \in 1..Len(device_idxs) :
        /\ device_idxs[k] <= Len(rd)
        /\ rd[device_idxs[k]].is_recording
\* Mutant: the button always takes its start branch.
is_never_recording(rd, device_idxs) == FALSE
\* device_idxs.iter().any(|&idx| idx < len && recording_devices[idx].is_recording)
is_any_recording(rd, device_idxs) ==
    \E k \in 1..Len(device_idxs) :
        /\ device_idxs[k] <= Len(rd)
        /\ rd[device_idxs[k]].is_recording

\* Mutant: a stop sets the flag of every slot at once.
SetStopFlagOfEverySlot(sf, fv, device_idx, v) ==
    IF device_idx <= Len(sf)
    THEN IF v THEN [a \in ArcIds |-> (\E k \in 1..Len(sf) : sf[k] = a) \/ fv[a]]
         ELSE [fv EXCEPT ![sf[device_idx]] = v]
    ELSE fv
\* Mutant: nothing is written to the flag.
SetStopFlagNoWrite(sf, fv, device_idx, v) == fv
\* Mutant: start and stop both write true.
SetStopFlagAlwaysTrue(sf, fv, device_idx, v) ==
    IF device_idx <= Len(sf) THEN [fv EXCEPT ![sf[device_idx]] = TRUE] ELSE fv
\* Mutant: the start branch leaves the flag as the last stop set it.
SetStopFlagNeverReset(sf, fv, device_idx, v) ==
    IF device_idx <= Len(sf) /\ v THEN [fv EXCEPT ![sf[device_idx]] = v] ELSE fv
\* *stop_flags.read()[device_idx].lock().unwrap() = v, behind its bounds check
SetStopFlag(sf, fv, device_idx, v) ==
    IF device_idx <= Len(sf) THEN [fv EXCEPT ![sf[device_idx]] = v] ELSE fv

\* Mutant: the else branch is always taken.
StopFlagCloneIsPrivate(sf, device_idx) == PrivateFlag
\* stop_flag_clone: the slot's flag, or a fresh private one
StopFlagClone(sf, device_idx) ==
    IF device_idx <= Len(sf) THEN sf[device_idx] ELSE PrivateFlag

FreeTids(th) == {t \in Tids : th[t].pc = "none"}
FreshTid(th) == CHOOSE t \in FreeTids(th) : \A u \in FreeTids(th) : t <= u

\* thread::spawn(move || ...): the closure's captures
Spawned(device, flag, wf) ==
    [NoThread EXCEPT !.pc = "init", !.device = device, !.stop_flag = flag,
                     !.waveform = wf]

\* Mutant: the handle is dropped, the thread detached.
StoreHandleDropped(rh, device_idx, tid) == rh
\* recorder_handles.write()[device_idx] = Some(handle), behind its bounds check
StoreHandle(rh, device_idx, tid) ==
    IF device_idx <= Len(rh) THEN [rh EXCEPT ![device_idx] = tid] ELSE rh

\* Mutant: every thread is given the first device.
selected_device_index_first(rd, device_idx) == 1
\* let selected_device_index = recording_devices[device_idx].device_index
\* (and device_name with it): the slot's selection when the button is
\* pressed
selected_device_index(rd, device_idx) == rd[device_idx].device_index

\* ------------------------------------------------------- start branch
RECURSIVE StartLoop(_, _)
StartLoop(st, device_idxs) ==
    IF device_idxs = <<>> THEN st
    ELSE LET device_idx == Head(device_idxs) IN
         IF device_idx <= Len(st.rd)
         THEN LET rd1 == [st.rd EXCEPT ![device_idx].is_recording = TRUE,
                                       ![device_idx].recording_start_time = TRUE]
                  fv1 == SetStopFlag(st.sf, st.fv, device_idx, FALSE)
                  tid == FreshTid(st.th)
                  th1 == [st.th EXCEPT ![tid] =
                             Spawned(selected_device_index(rd1, device_idx),
                                     StopFlagClone(st.sf, device_idx),
                                     rd1[device_idx].waveform_data)]
                  rh1 == StoreHandle(st.rh, device_idx, tid)
              IN StartLoop([st EXCEPT !.rd = rd1, !.fv = fv1, !.th = th1, !.rh = rh1],
                           Tail(device_idxs))
         ELSE StartLoop(st, Tail(device_idxs))

InRange(rd, device_idxs) == {k \in 1..Len(device_idxs) : device_idxs[k] <= Len(rd)}

StartPress(device_idxs) ==
    /\ ui.pc = "idle"
    /\ ~is_any_recording(recording_devices, device_idxs)
    /\ Cardinality(FreeTids(threads)) >= Cardinality(InRange(recording_devices, device_idxs))
    /\ Commit(StartLoop(Here, device_idxs))

\* -------------------------------------------------------- stop branch
\* recorder_handles.write()[device_idx].take(): the handle taken (None when
\* the index is out of range or the entry is empty)
\* Mutant: the handle is dropped instead of joined.
TakenHandleDropped(rh, device_idx) == None
TakenHandle(rh, device_idx) ==
    IF device_idx <= Len(rh) THEN rh[device_idx] ELSE None

\* Mutant: the handle is read but left in the Vec.
AfterTakeKept(rh, device_idx) == rh
\* what take() leaves in the Vec
AfterTake(rh, device_idx) ==
    IF device_idx <= Len(rh) THEN [rh EXCEPT ![device_idx] = None] ELSE rh

\* The loop of the stop branch, run from device_idxs until it blocks in a
\* join (ui.pc = "stop_join") or ends (ui.pc = "idle").
RECURSIVE StopLoop(_, _)
StopLoop(st, device_idxs) ==
    IF device_idxs = <<>> THEN [st EXCEPT !.ui = UiIdle]
    ELSE LET device_idx == Head(device_idxs) IN
         IF device_idx <= Len(st.rd)
         THEN LET rd1 == [st.rd EXCEPT ![device_idx].is_recording = FALSE,
                                       ![device_idx].recording_start_time = FALSE]
                  fv1 == SetStopFlag(st.sf, st.fv, device_idx, TRUE)
                  handle == TakenHandle(st.rh, device_idx)
                  rh1 == AfterTake(st.rh, device_idx)
                  st1 == [st EXCEPT !.rd = rd1, !.fv = fv1, !.rh = rh1]
              IN IF handle # None
                 THEN [st1 EXCEPT !.ui = [pc |-> "stop_join", join |-> handle,
                                          idxs |-> Tail(device_idxs)]]
                 ELSE StopLoop(st1, Tail(device_idxs))
         ELSE StopLoop(st, Tail(device_idxs))

StopPress(device_idxs) ==
    /\ ui.pc = "idle"
    /\ is_any_recording(recording_devices, device_idxs)
    /\ Commit(StopLoop(Here, device_idxs))

\* handle.join() returns once the thread has ended; Err when it panicked
Terminated(th, tid) == th[tid].pc \in {"done", "aborted"}
JoinIsErr(th, tid) == th[tid].pc = "aborted"

\* join consumes the handle; of the thread nothing is left
Joined(st) == [st EXCEPT !.th[st.ui.join] = NoThread]

\* handle.join().unwrap() in the stop branch, then the rest of the loop
StopJoinReturn ==
    /\ ui.pc = "stop_join"
    /\ Terminated(threads, ui.join)
    /\ IF JoinIsErr(threads, ui.join)
       THEN Commit([Here EXCEPT !.ui = [ui EXCEPT !.pc = "crashed"]])
       ELSE Commit(StopLoop(Joined(Here), ui.idxs))

\* -------------------------------------------------------- remove slot
\* Vec::remove(index): the later elements shift left
RemoveAt(s, i) == [k \in 1..(Len(s) - 1) |-> IF k < i THEN s[k] ELSE s[k + 1]]

RemoveDevice(rd, device_idx) == RemoveAt(rd, device_idx)
RemoveHandle(rh, device_idx) == RemoveAt(rh, device_idx)
\* Mutant: the last stop flag is removed, whatever the index.
RemoveLastFlag(sf, device_idx) == SubSeq(sf, 1, Len(sf) - 1)
\* Mutant: the stop flag is left in its Vec.
RemoveFlagForgotten(sf, device_idx) == sf
RemoveFlag(sf, device_idx) == RemoveAt(sf, device_idx)

\* The three remove calls at the end of the handler; Vec::remove panics when
\* the index is not smaller than the length.
RemoveSlot(st, device_idx) ==
    IF device_idx <= Len(st.rh) /\ device_idx <= Len(st.sf)
    THEN [st EXCEPT !.rd = RemoveDevice(st.rd, device_idx),
                    !.rh = RemoveHandle(st.rh, device_idx),
                    !.sf = RemoveFlag(st.sf, device_idx),
                    !.ui = UiIdle]
    ELSE [st EXCEPT !.rd = RemoveDevice(st.rd, device_idx),
                    !.ui = [pc |-> "crashed", join |-> None, idxs |-> <<>>]]

\* Mutant: the slot is removed without the stop steps.
RemoveNeverStops(rd, device_idx) == FALSE
\* if recording_devices[device_idx].is_recording: stop before removing
RemoveStopsFirst(rd, device_idx) == rd[device_idx].is_recording

\* The handler up to the point where it blocks in join or has removed.
RemoveSteps(st, device_idx) ==
    IF device_idx <= Len(st.rd)
    THEN IF RemoveStopsFirst(st.rd, device_idx)
         THEN LET fv1 == SetStopFlag(st.sf, st.fv, device_idx, TRUE)
                  handle == TakenHandle(st.rh, device_idx)
                  rh1 == AfterTake(st.rh, device_idx)
                  st1 == [st EXCEPT !.fv = fv1, !.rh = rh1]
              IN IF handle # None
                 THEN [st1 EXCEPT !.ui = [pc |-> "remove_join", join |-> handle,
                                          idxs |-> <<device_idx>>]]
                 ELSE RemoveSlot(st1, device_idx)
         ELSE RemoveSlot(st, device_idx)
    ELSE st

RemovePress(device_idx) ==
    /\ ui.pc = "idle"
    /\ Commit(RemoveSteps(Here, device_idx))

RemoveJoinReturn ==
    /\ ui.pc = "remove_join"
    /\ Terminated(threads, ui.join)
    /\ IF JoinIsErr(threads, ui.join)
       THEN Commit([Here EXCEPT !.ui = [ui EXCEPT !.pc = "crashed"]])
       ELSE Commit(RemoveSlot(Joined(Here), Head(ui.idxs)))

\* ---------------------------------------------------- device dropdown
\* Mutant: the handler writes without looking at the length.
DropdownUnchecked(rd, device_idx) == TRUE
\* if device_idx < app_state.read().recording_devices.len()
DropdownChecked(rd, device_idx) == device_idx <= Len(rd)

\* The handler's writes to the slot (device_index, and device_name with
\* it); indexing the Vec out of range panics.
DropdownSteps(st, device_idx, i) ==
    IF DropdownChecked(st.rd, device_idx)
    THEN IF device_idx <= Len(st.rd)
         THEN [st EXCEPT !.rd = [st.rd EXCEPT ![device_idx].device_index = i]]
         ELSE [st EXCEPT !.ui = [pc |-> "crashed", join |-> None, idxs |-> <<>>]]
    ELSE st

DropdownPress(device_idx, i) ==
    /\ ui.pc = "idle"
    /\ recording_devices' = DropdownSteps(Here, device_idx, i).rd
    /\ ui' = DropdownSteps(Here, device_idx, i).ui
    /\ UNCHANGED <<input_devices, stop_flags, recorder_handles, flag_val, waveform,
                   threads, fx, files>>

\* ------------------------------------------------------ capture thread
\* The process is alive: no capture thread runs after the UI thread's panic.
Alive == ui.pc # "crashed"

\* *stop_flag.lock().unwrap(): what a thread reads from its flag
StopFlagOf(t) ==
    IF threads[t].stop_flag = PrivateFlag THEN FALSE ELSE flag_val[threads[t].stop_flag]

UpdateThread(t, r) ==
    /\ threads' = [threads EXCEPT ![t] = r]
    /\ UNCHANGED <<input_devices, recording_devices, stop_flags, recorder_handles,
                   flag_val, ui, fx>>

\* sup_locks and cb_locks of a thread are the locks (of "stop", "preview",
\* "sink") its supervisor and its callback held together in the step that
\* brought them to where they are; io_locks are the locks held in the last
\* step that did file I/O.
\* The guard of the loop condition is a temporary of the condition: the
\* thread sleeps without it.
PollLocks == {"stop"}

\* AppSettings::load(), device resolution (.expect panics when the device is
\* gone), sink creation, build_input_stream, stream.play()
\* Local::now(): the clock does not go back, and the seconds are counted
\* from the one in which the earliest thread still around read it.
Now(th) ==
    LET started == {th[u].second : u \in Tids} \ {0}
    IN IF started = {} THEN {1}
       ELSE {n \in 1..MaxSeconds : \A m \in started : m <= n}

\* now is read by the thread itself, in one of seconds; File::create makes
\* the .pcm file or truncates the one of that name.
ThreadInitAt(t, seconds) ==
    /\ Alive
    /\ threads[t].pc = "init"
    /\ \E found \in BOOLEAN, audio_format \in Formats, now \in Now(threads) \cap seconds :
          IF found
          THEN LET r == [threads[t] EXCEPT !.pc = "poll",
                                           !.format = audio_format,
                                           !.second = now,
                                           !.writer_open = (audio_format = "Wave")]
               IN /\ UpdateThread(t, r)
                  /\ files' = IF audio_format = "Pcm"
                              THEN [files EXCEPT ![filename(r)] = 0]
                              ELSE files
          ELSE /\ UpdateThread(t, [threads[t] EXCEPT !.pc = "aborted"])
               /\ UNCHANGED files
    /\ UNCHANGED waveform

ThreadInit(t) == ThreadInitAt(t, 1..MaxSeconds)

\* while !*stop_flag_clone.lock().unwrap() { sleep(100ms) }: the loop ends
\* when the flag reads true
\* Mutants: the negation is missing; the loop never ends.
PollLoopEndsOnFalse(flag) == ~flag
PollLoopNeverEnds(flag) == FALSE
PollLoopEnds(flag) == flag

Poll(t) ==
    /\ Alive
    /\ threads[t].pc = "poll"
    /\ IF PollLoopEnds(StopFlagOf(t))
       THEN UpdateThread(t, [threads[t] EXCEPT !.pc = "finalize",
                                               !.sup_locks = PollLocks])
       ELSE UNCHANGED <<threads, input_devices, recording_devices, stop_flags,
                        recorder_handles, flag_val, ui, fx>>
    /\ UNCHANGED <<waveform, files>>

\* The finalize step has run: what the output file holds is what the sink
\* held at that moment.
FinalizeRun(r) ==
    [r EXCEPT !.finalize_runs = r.finalize_runs + 1, !.artifact = r.sink,
              !.writer_open = FALSE, !.pc = "exit"]

\* The locks the finalize match holds: the writer's (a temporary of the
\* statement) or the accumulator's (the binding samples); none for Pcm.
FinalizeLocks(audio_format) == IF audio_format = "Pcm" THEN {} ELSE {"sink"}

\* match settings.audio_format: Wave and Flac lock the sink for the whole
\* finalize; Pcm does nothing
FinalizeBegin(t) ==
    /\ Alive
    /\ threads[t].pc = "finalize"
    /\ IF threads[t].format = "Pcm"
       THEN UpdateThread(t, [FinalizeRun(threads[t]) EXCEPT
                                !.sup_locks = FinalizeLocks(threads[t].format)])
       ELSE UpdateThread(t, [threads[t] EXCEPT
                                !.pc = "encoding",
                                !.sup_locks = FinalizeLocks(threads[t].format)])
    /\ UNCHANGED <<waveform, files>>

\* How the finalize of a session can end without a panic: the FLAC arm,
\* when the accumulator is not empty, encodes and writes the file, and
\* prints an encode or fs::write error with eprintln and goes on (TRUE: it
\* failed).
FinalizeFailures(r) ==
    IF r.format = "Flac" /\ r.sink # <<>> THEN BOOLEAN ELSE {FALSE}

\* WavWriter::finalize / the FLAC encode and fs::write, then the lock is
\* released
FinalizeEnd(t) ==
    /\ Alive
    /\ threads[t].pc = "encoding"
    /\ \E failed \in FinalizeFailures(threads[t]) :
          UpdateThread(t, [FinalizeRun(threads[t]) EXCEPT
                              !.finalize_failed = failed,
                              !.io_locks = FinalizeLocks(threads[t].format)])
    /\ UNCHANGED <<waveform, files>>

\* The closure returns: its locals are dropped, the stream first; dropping
\* a stream waits for a callback that is running.
ThreadExit(t) ==
    /\ Alive
    /\ threads[t].pc = "exit"
    /\ threads[t].cb_pc = "idle"
    /\ UpdateThread(t, [threads[t] EXCEPT !.pc = "done", !.sup_locks = {}])
    /\ UNCHANGED <<waveform, files>>

\* ------------------------------------------------------ frame callback
StreamPlaying(t) == threads[t].pc \in {"poll", "finalize", "encoding", "exit"}

\* The locks each part of the callback holds together: the stop check's
\* guard is a temporary of the if condition, the preview's guard lives in
\* the block of lines 194-201, the sink's guard in its match arm.
StopCheckLocks == {"stop"}
\* Mutant: the stop check's guard is kept in a binding of the callback body.
PreviewLocksWithStop == {"stop", "preview"}
PreviewLocks == {"preview"}
SinkLocks == {"sink"}

\* Mutant: the stop check is missing.
CallbackNeverReturnsEarly(flag) == FALSE
\* if *stop_flag_stream.lock().unwrap() { return; }
CallbackReturnsEarly(flag) == flag

\* The backend delivers the next frame of at most frames: the callback's
\* stop check.
CbInvokeUpTo(t, frames) ==
    /\ Alive
    /\ StreamPlaying(t)
    /\ threads[t].cb_pc = "idle"
    /\ threads[t].delivered < frames
    /\ UpdateThread(t, [threads[t] EXCEPT
            !.delivered = threads[t].delivered + 1,
            !.accepted = IF CallbackReturnsEarly(StopFlagOf(t))
                         THEN threads[t].accepted ELSE threads[t].accepted + 1,
            !.cb_locks = StopCheckLocks,
            !.cb_pc = IF CallbackReturnsEarly(StopFlagOf(t)) THEN "idle" ELSE "preview"])
    /\ UNCHANGED <<waveform, files>>

CbInvoke(t) == CbInvokeUpTo(t, MaxFrames)

\* waveform.clear(); waveform.extend_from_slice(..); drain to the last 300
CbPreview(t) ==
    /\ Alive
    /\ threads[t].cb_pc = "preview"
    /\ waveform' = [waveform EXCEPT ![threads[t].waveform] = threads[t].delivered]
    /\ UpdateThread(t, [threads[t] EXCEPT !.cb_pc = "write", !.cb_locks = PreviewLocks])
    /\ UNCHANGED files

\* The sink a callback's write reaches: the WAV writer only while the
\* Option holds it, the PCM file and the FLAC accumulator always.
SinkAccepts(r) == r.format # "Wave" \/ r.writer_open

\* data of the k-th callback of a stream: the samples are numbered in the
\* order the backend delivers them.
FrameSamples(k) == [i \in 1..FrameLen |-> (k - 1) * FrameLen + i]

\* Mutant: the frame goes in front of what the sink holds.
SinkWithFrameInFront(sink, frame) == frame \o sink
\* for &sample in &processed_data { write / push }: one sample after the
\* other at the end of the sink
SinkWithFrame(sink, frame) == sink \o frame

\* The write of an arm is file I/O for the WAV writer and the PCM file; the
\* FLAC arm pushes to a Vec.
WriteIsFileIO(r) == r.format = "Pcm" \/ (r.format = "Wave" /\ r.writer_open)

\* file.write_all(&sample_i16.to_le_bytes()) of every sample of a frame: the
\* bytes go to the position of the thread's own File, which is behind
\* what this thread wrote before, and the file grows when they end behind
\* its end.
SampleBytes == 2
FileAfterWrite(len, sink, frame) ==
    LET end == SampleBytes * (Len(sink) + Len(frame))
    IN IF end > len THEN end ELSE len

\* match format: lock the sink, write the frame's samples, unlock
CbWrite(t) ==
    /\ Alive
    /\ threads[t].cb_pc = "write"
    /\ threads[t].pc # "encoding"
    /\ UpdateThread(t, [threads[t] EXCEPT
            !.cb_pc = "idle",
            !.cb_locks = SinkLocks,
            !.io_locks = IF WriteIsFileIO(threads[t]) THEN SinkLocks ELSE threads[t].io_locks,
            !.sink = IF SinkAccepts(threads[t])
                     THEN SinkWithFrame(threads[t].sink,
                                        FrameSamples(threads[t].delivered))
                     ELSE threads[t].sink])
    /\ files' = IF threads[t].format = "Pcm"
                THEN [files EXCEPT ![filename(threads[t])] =
                         FileAfterWrite(@, threads[t].sink,
                                        FrameSamples(threads[t].delivered))]
                ELSE files
    /\ UNCHANGED waveform

\* ------------------------------------------------------ preview buffer
\* The preview Vec holds at most this many samples.
PreviewCap == 300

\* vec![0.0; 200]
InitialBuffer == [i \in 1..200 |-> 0]

\* Mutant: clear() is missing.
PreviewPushNoClear(waveform_buf, processed_data) ==
    LET extended == waveform_buf \o processed_data
        len == Len(extended)
    IN IF len > PreviewCap THEN SubSeq(extended, len - PreviewCap + 1, len) ELSE extended

\* waveform.clear(); waveform.extend_from_slice(&processed_data);
\* if waveform.len() > 300 { waveform.drain(0..len-300) }
PreviewPush(waveform_buf, processed_data) ==
    LET cleared == <<>>
        extended == cleared \o processed_data
        len == Len(extended)
    IN IF len > PreviewCap THEN SubSeq(extended, len - PreviewCap + 1, len) ELSE extended

\* ---------------------------------------------------------- compressor
\* An f32 is a sign and a magnitude m * 2^e with 2^(Precision-1) <= m <
\* 2^Precision, or m = 0 for zero; the operations round to nearest, ties
\* to even, as the hardware's do.  Infinities, NaN and subnormals are left
\* out.
RECURSIVE Pow2(_)
Pow2(n) == IF n = 0 THEN 1 ELSE 2 * Pow2(n - 1)

ZeroMag == [m |-> 0, e |-> 0]

\* The float nearest to (num / den) * 2^e, for num > 0 and den > 0.
RECURSIVE RoundRatio(_, _, _)
RoundRatio(num, den, e) ==
    IF num >= den * Pow2(Precision) THEN RoundRatio(num, 2 * den, e + 1)
    ELSE IF num < den * Pow2(Precision - 1) THEN RoundRatio(2 * num, den, e - 1)
    ELSE LET q == num \div den
             r == num % den
             up == 2 * r > den \/ (2 * r = den /\ q % 2 = 1)
             q1 == IF up THEN q + 1 ELSE q
         IN IF q1 = Pow2(Precision)
            THEN [m |-> Pow2(Precision - 1), e |-> e + 1]
            ELSE [m |-> q1, e |-> e]

Round(num, den, e) == IF num = 0 THEN ZeroMag ELSE RoundRatio(num, den, e)

MinE(a, b) == IF a.e < b.e THEN a.e ELSE b.e
\* a's value in units of 2^e, for e <= a.e
Units(a, e) == a.m * Pow2(a.e - e)

\* a > b, a - b (for a >= b), a + b, a / b (for b # 0), a * b on magnitudes
MagGt(a, b) == Units(a, MinE(a, b)) > Units(b, MinE(a, b))
MagSub(a, b) == Round(Units(a, MinE(a, b)) - Units(b, MinE(a, b)), 1, MinE(a, b))
MagAdd(a, b) == Round(Units(a, MinE(a, b)) + Units(b, MinE(a, b)), 1, MinE(a, b))
MagDiv(a, b) == Round(a.m, b.m, a.e - b.e)
MagMul(a, b) == Round(a.m * b.m, 1, a.e + b.e)

\* Mutant: the branch for a quiet sample pushes its magnitude.
QuietSampleAbs(sample) == [sample EXCEPT !.neg = FALSE]
\* else { sample }
QuietSample(sample) == sample

\* Mutant: the gain is what is left above the threshold, the threshold
\* itself forgotten.
compress_sample_without_threshold(sample, threshold_amp, ratio) ==
    LET abs == sample.mag IN
    IF MagGt(abs, threshold_amp)
    THEN LET gain == MagDiv(MagSub(abs, threshold_amp), ratio)
             gain_factor == MagDiv(gain, abs)
         IN [neg |-> sample.neg, mag |-> MagMul(abs, gain_factor)]
    ELSE QuietSample(sample)

\* The body of the loop over the samples, for threshold_amp =
\* 10f32.powf(threshold_db / 20.0).
compress_sample(sample, threshold_amp, ratio) ==
    LET abs == sample.mag IN
    IF MagGt(abs, threshold_amp)
    THEN LET gain == MagAdd(threshold_amp, MagDiv(MagSub(abs, threshold_amp), ratio))
             gain_factor == MagDiv(gain, abs)
         IN [neg |-> sample.neg, mag |-> MagMul(abs, gain_factor)]
    ELSE QuietSample(sample)

\* compress_audio, given threshold_amp in place of threshold_db
compress_audio(samples, threshold_amp, ratio) ==
    [i \in 1..Len(samples) |-> compress_sample(samples[i], threshold_amp, ratio)]

\* ------------------------------------------------------- specification
Next ==
    \/ AddPress
    \/ StartPress(AllIdxs(recording_devices))
    \/ StopPress(AllIdxs(recording_devices))
    \/ StopJoinReturn
    \/ \E device_idx \in 1..Len(recording_devices) : RemovePress(device_idx)
    \/ RemoveJoinReturn
    \/ \E device_idx \in 1..Len(recording_devices), i \in 1..input_devices :
          DropdownPress(device_idx, i)
    \/ \E t \in Tids : ThreadInit(t)
    \/ \E t \in Tids : Poll(t)
    \/ \E t \in Tids : FinalizeBegin(t)
    \/ \E t \in Tids : FinalizeEnd(t)
    \/ \E t \in Tids : ThreadExit(t)
    \/ \E t \in Tids : CbInvoke(t)
    \/ \E t \in Tids : CbPreview(t)
    \/ \E t \in Tids : CbWrite(t)

Spec == Init /\ [][Next]_vars

\* A spawned thread keeps running, a callback that was entered runs to its
\* end, and join returns once the joined thread has ended.  Nothing makes
\* the user press a button or the backend deliver a frame.
Fairness ==
    /\ \A t \in Tids :
          /\ WF_vars(ThreadInit(t))
          /\ WF_vars(Poll(t))
          /\ WF_vars(FinalizeBegin(t))
          /\ WF_vars(FinalizeEnd(t))
          /\ WF_vars(ThreadExit(t))
          /\ WF_vars(CbPreview(t))
          /\ WF_vars(CbWrite(t))
    /\ WF_vars(StopJoinReturn)
    /\ WF_vars(RemoveJoinReturn)

\* The same program with one input device, without the device dropdown,
\* and with all its sessions starting in one second; neither has a part in
\* whether a thread ends: the behaviours that the liveness claims are
\* checked on.
InitOneDevice == Init /\ input_devices = 1

NextNoDropdown ==
    \/ AddPress
    \/ StartPress(AllIdxs(recording_devices))
    \/ StopPress(AllIdxs(recording_devices))
    \/ StopJoinReturn
    \/ \E device_idx \in 1..Len(recording_devices) : RemovePress(device_idx)
    \/ RemoveJoinReturn
    \/ \E t \in Tids : ThreadInitAt(t, {1})
    \/ \E t \in Tids : Poll(t)
    \/ \E t \in Tids : FinalizeBegin(t)
    \/ \E t \in Tids : FinalizeEnd(t)
    \/ \E t \in Tids : ThreadExit(t)
    \/ \E t \in Tids : CbInvoke(t)
    \/ \E t \in Tids : CbPreview(t)
    \/ \E t \in Tids : CbWrite(t)

FairSpec == InitOneDevice /\ [][NextNoDropdown]_vars /\ Fairness

\* The program with one input device and one slot, whose sessions get up
\* to SessionFrames frames.
NextOneSlot ==
    \/ Len(recording_devices) = 0 /\ AddPress
    \/ StartPress(AllIdxs(recording_devices))
    \/ StopPress(AllIdxs(recording_devices))
    \/ StopJoinReturn
    \/ \E device_idx \in 1..Len(recording_devices) : RemovePress(device_idx)
    \/ RemoveJoinReturn
    \/ \E t \in Tids : ThreadInit(t)
    \/ \E t \in Tids : Poll(t)
    \/ \E t \in Tids : FinalizeBegin(t)
    \/ \E t \in Tids : FinalizeEnd(t)
    \/ \E t \in Tids : ThreadExit(t)
    \/ \E t \in Tids : CbInvokeUpTo(t, SessionFrames)
    \/ \E t \in Tids : CbPreview(t)
    \/ \E t \in Tids : CbWrite(t)

OneSlotSpec == InitOneDevice /\ [][NextOneSlot]_vars

\* The functions on samples, each behaviour one call on arguments drawn
\* from bounded sets.
\* The frames pushed to a preview buffer: n samples numbered from base + 1.
Frame(n, base) == [i \in 1..n |-> base + i]
PushLens == {0, 1, 50, 299, 300, 301, 400}
PriorBuffers == {InitialBuffer, <<>>, Frame(50, 1000), Frame(300, 2000)}

PreviewPushCall ==
    /\ fx = NoCall
    /\ \E prior \in PriorBuffers, n \in PushLens, base \in {0, 500} :
          fx' = [op |-> "push", prior |-> prior, frame |-> Frame(n, base),
                 buffer |-> PreviewPush(prior, Frame(n, base))]
    /\ UNCHANGED <<input_devices, recording_devices, stop_flags, recorder_handles,
                   flag_val, waveform, threads, ui, files>>

\* The magnitudes m * 2^e of ExpRange binades below 2, and the samples:
\* the k-th of them, zero last.
Mantissas == Pow2(Precision - 1)..(Pow2(Precision) - 1)
Mags == {[m |-> m, e |-> e] : m \in Mantissas, e \in (1 - Precision - ExpRange + 1)..(1 - Precision)}
NumSamples == 2 * ExpRange * Pow2(Precision - 1) + 1
SampleAt(k) ==
    IF k = NumSamples THEN [neg |-> FALSE, mag |-> ZeroMag]
    ELSE LET j == (k - 1) \div 2
         IN [neg |-> (k % 2 = 0),
             mag |-> [m |-> Pow2(Precision - 1) + (j % Pow2(Precision - 1)),
                      e |-> 1 - Precision - (j \div Pow2(Precision - 1))]]
\* The arguments samples: up to MaxSamples samples in a row, from the k-th
SampleRun(k, len) == [i \in 1..len |-> SampleAt(((k + i - 2) % NumSamples) + 1)]

One == Round(1, 1, 0)
Ratios == {One, [m |-> Pow2(Precision - 1) + 1, e |-> 1 - Precision],
           Round(3, 2, 0), Round(2, 1, 0), Round(4, 1, 0), Round(64, 1, 0)}

\* threshold_amp: 10f32.powf(x) is positive, or zero when it underflows
Thresholds == Mags \cup {ZeroMag}

\* The call of the capture path on the samples 0.5 and -0.05: threshold
\* 10^(-20/20) = 0.1, ratio 4.
DocSamples == <<[neg |-> FALSE, mag |-> Round(1, 2, 0)], [neg |-> TRUE, mag |-> Round(1, 20, 0)]>>
DocThreshold == Round(1, 10, 0)
DocRatio == Round(4, 1, 0)

CompressArgs ==
    {[samples |-> SampleRun(k, len), threshold_amp |-> threshold_amp, ratio |-> ratio] :
        k \in 1..NumSamples, len \in 0..MaxSamples, threshold_amp \in Thresholds,
        ratio \in Ratios}
    \cup {[samples |-> DocSamples, threshold_amp |-> DocThreshold, ratio |-> DocRatio]}

CompressCall ==
    /\ fx = NoCall
    /\ \E a \in CompressArgs :
          fx' = [op |-> "compress", samples |-> a.samples,
                 threshold_amp |-> a.threshold_amp, ratio |-> a.ratio,
                 result |-> compress_audio(a.samples, a.threshold_amp, a.ratio)]
    /\ UNCHANGED <<input_devices, recording_devices, stop_flags, recorder_handles,
                   flag_val, waveform, threads, ui, files>>

\* ------------------------------------------------- sample conversion
I16Max == 32767
I16Min == -32768
I32Max == 2147483647
I32Min == -2147483647 - 1

\* The integer part of mag * k, for an integer k: the f32 product of a
\* sample of at most 9 significant bits with i16::MAX (15 bits) is exact,
\* so that the cast sees mag * k itself.
TruncMul(mag, k) ==
    IF mag.e >= 0 THEN mag.m * Pow2(mag.e) * k
    ELSE (mag.m * k) \div Pow2(-mag.e)

\* Mutant: the cast keeps the low 16 bits, as a C cast would.
as_i16_wrapping(v) == ((v - I16Min) % (I16Max - I16Min + 1)) + I16Min
\* (x) as i16, for the integer part v of x: the nearest value of the type
as_i16(v) == IF v > I16Max THEN I16Max ELSE IF v < I16Min THEN I16Min ELSE v

\* (sample * i16::MAX as f32) as i16
sample_i16(sample) ==
    as_i16(IF sample.neg THEN -TruncMul(sample.mag, I16Max)
           ELSE TruncMul(sample.mag, I16Max))

\* sample_i16.to_le_bytes(): the two's complement, low byte first
to_le_bytes(v) ==
    LET u == (v + 65536) % 65536
    IN <<u % 256, u \div 256>>

\* (sample * i32::MAX as f32) as i32. i32::MAX as f32 is 2^31, the float
\* nearest to 2^31 - 1, and a product with a power of two is exact: a
\* sample of magnitude 1 or more reaches 2^31 and the cast gives the end
\* of the range, a smaller one gives the integer part of mag * 2^31.
sample_i32(sample) ==
    IF sample.mag.m = 0 THEN 0
    ELSE IF ~MagGt(One, sample.mag)
    THEN IF sample.neg THEN I32Min ELSE I32Max
    ELSE LET k == 31 + sample.mag.e
             t == IF k >= 0 THEN sample.mag.m * Pow2(k)
                  ELSE sample.mag.m \div Pow2(-k)
         IN IF sample.neg THEN -t ELSE t

\* One sample through the three arms of the write.
ConvertCall ==
    /\ fx = NoCall
    /\ \E k \in 1..NumSamples :
          fx' = [op |-> "convert", sample |-> SampleAt(k),
                 sample_i16 |-> sample_i16(SampleAt(k)),
                 bytes |-> to_le_bytes(sample_i16(SampleAt(k))),
                 sample_i32 |-> sample_i32(SampleAt(k))]
    /\ UNCHANGED <<input_devices, recording_devices, stop_flags, recorder_handles,
                   flag_val, waveform, threads, ui, files>>

\* ------------------------------------------------ one frame's capture
\* 10f32.powf(threshold_db / 20.0), on the thresholds of the model
ThresholdAmp(threshold_db) ==
    CASE threshold_db = -20 -> Round(1, 10, 0)
      [] threshold_db = -40 -> Round(1, 100, 0)

\* AppSettings: what the capture path could read of it
SettingsValues ==
    [audio_format : Formats, bit_depth : {16, 24, 32}, compressor_enabled : BOOLEAN,
     compressor_threshold_db : {-20, -40},
     compressor_ratio : {One, Round(2, 1, 0), Round(4, 1, 0)}]

\* Mutant: the two lines commented out in the source are the live ones.
compressor_threshold_db_of_settings(settings) == settings.compressor_threshold_db
\* let compressor_threshold_db:f32 = -20.0;
compressor_threshold_db(settings) == -20

\* let compressor_ratio:f32 = 4.0;
compressor_ratio(settings) == Round(4, 1, 0)

\* let processed_data = if compressor_enabled { compress_audio(..) }
\*                      else { data.to_vec() }
processed_data(settings, data) ==
    IF settings.compressor_enabled
    THEN compress_audio(data, ThresholdAmp(compressor_threshold_db(settings)),
                        compressor_ratio(settings))
    ELSE data

\* What the frame adds to the sink of the session's format.
SinkValues(settings, processed) ==
    IF settings.audio_format = "Flac"
    THEN [i \in 1..Len(processed) |-> sample_i32(processed[i])]
    ELSE [i \in 1..Len(processed) |-> sample_i16(processed[i])]

\* MemSource::from_samples(&samples, 1, settings.bit_depth as usize, ..):
\* the bits per sample the FLAC encoder is told
bits_per_sample(settings) == settings.bit_depth

\* The signed range of a bit depth.
BitsMax(bits) == CASE bits = 16 -> I16Max [] bits = 24 -> 8388607 [] bits = 32 -> I32Max
BitsMin(bits) == -BitsMax(bits) - 1

\* One callback on the frame data, under the settings a session loaded.
Capture(settings, data) ==
    [processed |-> processed_data(settings, data),
     sink |-> SinkValues(settings, processed_data(settings, data)),
     preview |-> PreviewPush(InitialBuffer, processed_data(settings, data))]

\* Two sessions get the same frame; their settings agree on everything
\* but the compressor's threshold and ratio.
CaptureCall ==
    /\ fx = NoCall
    /\ \E a \in SettingsValues, b \in SettingsValues,
          k \in 1..NumSamples, len \in 1..MaxSamples :
          /\ a.audio_format = b.audio_format
          /\ a.bit_depth = b.bit_depth
          /\ a.compressor_enabled = b.compressor_enabled
          /\ fx' = [op |-> "capture", data |-> SampleRun(k, len),
                    settings_a |-> a, settings_b |-> b,
                    a |-> Capture(a, SampleRun(k, len)),
                    b |-> Capture(b, SampleRun(k, len))]
    /\ UNCHANGED <<input_devices, recording_devices, stop_flags, recorder_handles,
                   flag_val, waveform, threads, ui, files>>

NextCall == PreviewPushCall \/ CompressCall \/ ConvertCall \/ CaptureCall

\* No input device: the handlers and threads have nothing to do.
InitNoDevice == Init /\ input_devices = 0

FxSpec == InitNoDevice /\ [][NextCall]_vars

\* ---------------------------------------------------------------- claims
SlotIdxs == 1..Len(recording_devices)

\* A thread that was spawned and has not ended.
LiveThread(t) == threads[t].pc \in {"init", "poll", "finalize", "encoding", "exit"}

\* The threads spawned for the slot that owns waveform buffer wf and not
\* joined yet.
ThreadsOf(wf) == {t \in Tids : threads[t].pc # "none" /\ threads[t].waveform = wf}

\* C1: the slot Vec, the stop-flag Vec and the handle Vec have the same
\* length in every state, whatever presses came before.
C1_EqualLengths ==
    /\ Len(recording_devices) = Len(stop_flags)
    /\ Len(stop_flags) = Len(recorder_handles)

\* A slot was removed in front of a recording one, which moved to index 1.
C1_Witness ==
    /\ Len(recording_devices) = 1
    /\ recording_devices[1].waveform_data = 2
    /\ recording_devices[1].is_recording
    /\ recorder_handles[1] # None

\* C2: no two live capture threads were spawned for the same slot.
C2_OneLiveThreadPerSlot ==
    \A t1 \in Tids, t2 \in Tids :
        (t1 # t2 /\ LiveThread(t1) /\ LiveThread(t2))
            => threads[t1].waveform # threads[t2].waveform

\* Two slots record at once, one of them in a session that follows an
\* earlier one of the same slot (its preview still holds the earlier
\* session's frame).
C2_Witness ==
    \E t1 \in Tids, t2 \in Tids :
        /\ t1 # t2 /\ LiveThread(t1) /\ LiveThread(t2)
        /\ threads[t1].delivered = 0
        /\ waveform[threads[t1].waveform] # InitialWaveform

\* C3: the finalize step of a session runs at most once, only in a thread
\* that has left its poll loop with its stop flag set, and a thread that
\* ends normally has run it exactly once.
C3_FinalizeOnce ==
    \A t \in Tids :
        /\ threads[t].finalize_runs <= 1
        /\ threads[t].pc \in {"finalize", "encoding", "exit", "done"} => StopFlagOf(t)
        /\ threads[t].finalize_runs = 1 <=> threads[t].pc \in {"exit", "done"}

\* A stopped thread has ended after its one finalize run.
C3_Witness ==
    \E t \in Tids : threads[t].pc = "done" /\ threads[t].finalize_runs = 1

\* C4: once the finalize step of a session has run, the sink holds what it
\* held at that moment: no callback appends to it afterwards.
C4_NoWriteAfterFinalize ==
    \A t \in Tids :
        threads[t].finalize_runs >= 1 => threads[t].sink = threads[t].artifact

\* C5 as stated: in no state does a slot have is_recording = false while a
\* thread spawned for it has not run its finalize step.
C5_StoppedMeansFinalized ==
    \A idx \in SlotIdxs :
        ~recording_devices[idx].is_recording
            => \A t \in ThreadsOf(recording_devices[idx].waveform_data) :
                   threads[t].finalize_runs >= 1

\* C5 amended: whenever no handler is running, a slot with is_recording =
\* false has no thread left that was not joined, and join returns Ok only
\* for a thread that ended after running its finalize step once, with no
\* callback of its stream still running.
C5_StoppedAtReturnMeansFinalized ==
    /\ [](ui.pc = "idle" =>
            \A idx \in SlotIdxs :
                ~recording_devices[idx].is_recording
                    => ThreadsOf(recording_devices[idx].waveform_data) = {})
    /\ [][\A t \in Tids :
            (threads[t].pc # "none" /\ threads'[t].pc = "none")
                => /\ threads[t].pc = "done"
                   /\ threads[t].finalize_runs = 1
                   /\ threads[t].cb_pc = "idle"]_vars

\* A slot was stopped after its session had published a frame.
C5_Witness ==
    /\ ui.pc = "idle"
    /\ \E idx \in SlotIdxs :
          /\ ~recording_devices[idx].is_recording
          /\ flag_val[stop_flags[idx]]
          /\ waveform[recording_devices[idx].waveform_data] # InitialWaveform

\* C6: a thread in its poll loop whose stop flag is set ends after running
\* its finalize step, and a join the UI thread waits in returns (Ok, the
\* thread is gone; or Err, and unwrap panics).
C6_StopTerminates ==
    \A t \in Tids :
        /\ (threads[t].pc = "poll" /\ StopFlagOf(t))
               ~> (threads[t].pc = "done" /\ threads[t].finalize_runs = 1)
        /\ (ui.pc \in {"stop_join", "remove_join"} /\ ui.join = t)
               ~> (threads[t].pc = "none" \/ ui.pc = "crashed")

\* The joined thread has ended, finalized: the join is about to return.
C6_Witness ==
    /\ ui.pc = "stop_join"
    /\ threads[ui.join].pc = "done"
    /\ threads[ui.join].finalize_runs = 1
    /\ threads[ui.join].delivered = MaxFrames

\* C7: a callback invocation that reads the stop flag as true ends there:
\* the sink and the preview buffer are as before and nothing of the
\* invocation is left to run.
C7_StoppedCallbackWritesNothing ==
    [][\A t \in Tids :
          (threads'[t].delivered = threads[t].delivered + 1 /\ StopFlagOf(t))
              => /\ threads'[t].sink = threads[t].sink
                 /\ waveform' = waveform
                 /\ threads'[t].cb_pc = "idle"]_vars

\* A frame was delivered to a stopped session and left no trace.
C7_Witness ==
    \E t \in Tids :
        /\ StopFlagOf(t)
        /\ threads[t].delivered >= 1
        /\ threads[t].cb_pc = "idle"
        /\ threads[t].sink = <<>>
        /\ waveform[threads[t].waveform] = InitialWaveform

\* C8: the stop steps on a slot that is not recording leave is_recording
\* false, join nothing, do not panic and leave handles and threads as they
\* were; doing them again changes nothing more.
C8_StopIdempotent ==
    ui.pc = "idle" =>
        \A idx \in SlotIdxs :
            ~recording_devices[idx].is_recording =>
                LET once == StopLoop(Here, <<idx>>)
                    twice == StopLoop(once, <<idx>>)
                IN /\ once.ui = UiIdle
                   /\ ~once.rd[idx].is_recording
                   /\ once.rh = recorder_handles
                   /\ once.th = threads
                   /\ twice = once

\* Two slots, both stopped before.
C8_Witness ==
    /\ ui.pc = "idle"
    /\ Len(recording_devices) = 2
    /\ \A idx \in SlotIdxs :
          /\ ~recording_devices[idx].is_recording
          /\ flag_val[stop_flags[idx]]
          /\ recorder_handles[idx] = None

\* C9: a slot is in the Vec as long as a thread spawned for it is not
\* joined, and when the remove handler comes back from its join the thread
\* had its flag set, has ended and has finalized; then the slot, its flag
\* and its handle go together.
C9_RemoveStopsFirst ==
    /\ [](\A t \in Tids :
            threads[t].pc # "none"
                => \E idx \in SlotIdxs :
                       recording_devices[idx].waveform_data = threads[t].waveform)
    /\ [][(ui.pc = "remove_join" /\ ui'.pc = "idle")
            => /\ StopFlagOf(ui.join)
               /\ threads[ui.join].pc = "done"
               /\ threads[ui.join].finalize_runs = 1
               /\ threads[ui.join].waveform
                      = recording_devices[Head(ui.idxs)].waveform_data
               /\ threads[ui.join].stop_flag = stop_flags[Head(ui.idxs)]
               /\ recording_devices' = RemoveAt(recording_devices, Head(ui.idxs))
               /\ stop_flags' = RemoveAt(stop_flags, Head(ui.idxs))
               /\ recorder_handles' = RemoveAt(recorder_handles, Head(ui.idxs))]_vars

\* The remove handler waits in join for a thread that has just finalized,
\* while another slot goes on recording.
C9_Witness ==
    /\ ui.pc = "remove_join"
    /\ threads[ui.join].pc = "done"
    /\ threads[ui.join].finalize_runs = 1
    /\ \E idx \in SlotIdxs :
          idx # Head(ui.idxs) /\ recording_devices[idx].is_recording

\* C10: when the fault of one slot's thread has ended a stop or a remove,
\* no other slot is left with a thread that was neither stopped nor joined.
C10_FaultIsolated ==
    ui.pc = "crashed" =>
        \A t \in Tids : threads[t].pc \in {"none", "aborted"}
\* The UI thread comes back from a join.
JoinReturns == ui.pc \in {"stop_join", "remove_join"} /\ ui' # ui

\* C11: when the finalize of the joined thread failed (FLAC encode or file
\* write), the handler that joined it is told so (the one result it gets
\* is join's: an Err), and the slot it stopped has is_recording = false.
C11_FinalizeFailureReported ==
    [][(JoinReturns /\ threads[ui.join].finalize_failed)
          => /\ JoinIsErr(threads, ui.join)
             /\ \A idx \in 1..Len(recording_devices') :
                   recording_devices'[idx].waveform_data = threads[ui.join].waveform
                       => ~recording_devices'[idx].is_recording]_vars

\* C12: no step changes the device_index of a slot that is recording.
C12_DeviceFixedWhileRecording ==
    [][\A idx \in SlotIdxs :
          (/\ recording_devices[idx].is_recording
           /\ idx <= Len(recording_devices')
           /\ recording_devices'[idx].waveform_data
                  = recording_devices[idx].waveform_data)
              => recording_devices'[idx].device_index
                     = recording_devices[idx].device_index]_vars

\* C13: the samples in a session's sink are in the order the backend
\* delivered them: the samples of an earlier frame all come before those
\* of a later one.
C13_SinkInDeliveryOrder ==
    \A t \in Tids :
        \A i \in DOMAIN threads[t].sink, j \in DOMAIN threads[t].sink :
            i < j => threads[t].sink[i] < threads[t].sink[j]

\* A session has written two frames.
C13_Witness ==
    \E t \in Tids :
        /\ threads[t].delivered = 2
        /\ threads[t].sink = FrameSamples(1) \o FrameSamples(2)

\* C14: neither the callback nor the supervisor of a thread holds two of
\* the three locks together, the supervisor that encodes holds the sink
\* lock alone, and no file I/O is done under the preview lock.
C14_OneLockAtATime ==
    \A t \in Tids :
        /\ Cardinality(threads[t].cb_locks) <= 1
        /\ Cardinality(threads[t].sup_locks) <= 1
        /\ threads[t].pc = "encoding" => threads[t].sup_locks = {"sink"}
        /\ "preview" \notin threads[t].io_locks

\* A callback has published a frame and written it to a file, and the
\* supervisor has finalized under the sink lock.
C14_Witness ==
    \E t \in Tids :
        /\ threads[t].pc = "exit"
        /\ threads[t].sup_locks = {"sink"}
        /\ threads[t].cb_locks = {"sink"}
        /\ threads[t].io_locks = {"sink"}
        /\ waveform[threads[t].waveform] # InitialWaveform

\* C15: no callback waits for the sink lock while the supervisor holds it
\* to finalize.
C15_CallbackNeverWaitsForFinalize ==
    \A t \in Tids : ~(threads[t].pc = "encoding" /\ threads[t].cb_pc = "write")

\* C16: the finalize step of a session starts only when no callback that
\* passed its stop check is still on its way to the sink.
C16_InFlightWriteBeforeFinalize ==
    [][\A t \in Tids :
          (threads[t].pc = "finalize" /\ threads'[t].pc # "finalize")
              => threads[t].cb_pc = "idle"]_vars

Min(a, b) == IF a < b THEN a ELSE b

\* C17: after a push of a frame of n samples the buffer holds the last
\* min(n, 300) samples of that frame, in order, and nothing else.
C17_PreviewHoldsFrameTail ==
    fx.op = "push" =>
        LET n == Len(fx.frame)
            k == Min(n, 300)
        IN /\ Len(fx.buffer) = k
           /\ \A i \in 1..k : fx.buffer[i] = fx.frame[n - k + i]

\* A frame of 400 samples was pushed to a buffer that held 300 others.
C17_Witness ==
    /\ fx.op = "push"
    /\ Len(fx.prior) = 300
    /\ Len(fx.frame) = 400
    /\ Len(fx.buffer) = 300
    /\ fx.buffer[1] = fx.frame[101]

\* C18: a sample whose magnitude is not above the threshold comes out
\* unchanged, whatever the ratio.
C18_IdentityBelowThreshold ==
    fx.op = "compress" =>
        \A i \in 1..Len(fx.samples) :
            ~MagGt(fx.samples[i].mag, fx.threshold_amp)
                => fx.result[i] = fx.samples[i]

\* A negative sample at the threshold and a louder one that was changed.
C18_Witness ==
    /\ fx.op = "compress"
    /\ Len(fx.samples) = 2
    /\ fx.samples[1].neg /\ fx.samples[1].mag = fx.threshold_amp
    /\ fx.result[1] = fx.samples[1]
    /\ fx.result[2] # fx.samples[2]

\* C19: a sample above the threshold, with a ratio above 1, comes out with
\* a smaller magnitude that is not below the threshold, and with its sign.
C19_AttenuatedAboveThreshold ==
    fx.op = "compress" =>
        \A i \in 1..Len(fx.samples) :
            (MagGt(fx.samples[i].mag, fx.threshold_amp) /\ MagGt(fx.ratio, One))
                => /\ MagGt(fx.samples[i].mag, fx.result[i].mag)
                   /\ ~MagGt(fx.threshold_amp, fx.result[i].mag)
                   /\ fx.result[i].neg = fx.samples[i].neg

\* C20: with ratio 1 the result is the argument.
C20_RatioOneIsIdentity ==
    (fx.op = "compress" /\ fx.ratio = One) => fx.result = fx.samples

\* The value the formula of C21 gives for a sample above the threshold:
\* s * (gain / |s|) with gain = thresholdAmp + (|s| - thresholdAmp) / ratio,
\* each operation rounded.
C21_Formula(s, threshold_amp, ratio) ==
    [neg |-> s.neg,
     mag |-> MagMul(s.mag,
                    MagDiv(MagAdd(threshold_amp,
                                  MagDiv(MagSub(s.mag, threshold_amp), ratio)),
                           s.mag))]

\* C21: the result has the length of the argument, its element i is what
\* the call on element i alone gives: the formula's value when |s| is above
\* the threshold, s otherwise; with threshold 0.1 and ratio 4 the sample
\* 0.5 gives 0.2 and -0.05 gives -0.05.
C21_PointwiseFormula ==
    fx.op = "compress" =>
        /\ Len(fx.result) = Len(fx.samples)
        /\ \A i \in 1..Len(fx.samples) :
              /\ fx.result[i] =
                     IF MagGt(fx.samples[i].mag, fx.threshold_amp)
                     THEN C21_Formula(fx.samples[i], fx.threshold_amp, fx.ratio)
                     ELSE fx.samples[i]
              /\ <<fx.result[i]>> =
                     compress_audio(<<fx.samples[i]>>, fx.threshold_amp, fx.ratio)
        /\ (fx.samples = DocSamples /\ fx.threshold_amp = DocThreshold
                /\ fx.ratio = DocRatio)
              => fx.result = <<[neg |-> FALSE, mag |-> Round(1, 5, 0)], DocSamples[2]>>

\* The call on 0.5 and -0.05 was made.
C21_Witness ==
    /\ fx.op = "compress"
    /\ fx.samples = DocSamples /\ fx.threshold_amp = DocThreshold /\ fx.ratio = DocRatio
    /\ fx.result[1] # fx.samples[1]

\* C22: with thresholdAmp = 0 the result is the argument.
C22_ZeroThresholdIsIdentity ==
    (fx.op = "compress" /\ fx.threshold_amp = ZeroMag) => fx.result = fx.samples

C30_SettingsThresholdAndRatioIgnored ==
    fx.op = "capture" =>
        /\ fx.a.sink = fx.b.sink
        /\ fx.a.preview = fx.b.preview
        /\ fx.settings_a.compressor_enabled
              => fx.a.processed = compress_audio(fx.data, DocThreshold, DocRatio)

\* Two sessions with the compressor on, -20 dB and ratio 2 against -40 dB
\* and ratio 4, and a frame the compressor changes.
C30_Witness ==
    /\ fx.op = "capture"
    /\ fx.settings_a.compressor_enabled
    /\ fx.settings_a.compressor_threshold_db = -20
    /\ fx.settings_b.compressor_threshold_db = -40
    /\ fx.settings_a.compressor_ratio # fx.settings_b.compressor_ratio
    /\ fx.a.processed # fx.data
    /\ fx.a.sink = fx.b.sink

\* C24: when the thread of a PCM session has ended, its file is two bytes
\* long for every sample of the frames whose callback found the stop
\* flag false.
C24_PcmLengthIsAcceptedSamples ==
    \A t \in Tids :
        (threads[t].pc = "done" /\ threads[t].format = "Pcm")
            => files[filename(threads[t])]
                   = SampleBytes * FrameLen * threads[t].accepted

\* C25: a step that makes the slot list longer appends one slot that is
\* not recording and has no start time, one empty handle and one stop
\* flag that reads false, and leaves the other entries alone; without an
\* input device there is never a slot.
C25_AddSlotAppendsOne ==
    /\ [](input_devices = 0 =>
             recording_devices = <<>> /\ recorder_handles = <<>> /\ stop_flags = <<>>)
    /\ [][Len(recording_devices') > Len(recording_devices) =>
             LET n == Len(recording_devices) + 1 IN
             /\ input_devices # 0
             /\ Len(recording_devices') = n
             /\ SubSeq(recording_devices', 1, n - 1) = recording_devices
             /\ ~recording_devices'[n].is_recording
             /\ ~recording_devices'[n].recording_start_time
             /\ recorder_handles' = Append(recorder_handles, None)
             /\ Len(stop_flags') = Len(stop_flags) + 1
             /\ SubSeq(stop_flags', 1, Len(stop_flags)) = stop_flags
             /\ ~flag_val'[stop_flags'[Len(stop_flags')]]
             /\ \A k \in 1..Len(stop_flags) :
                   /\ stop_flags[k] # stop_flags'[Len(stop_flags')]
                   /\ flag_val'[stop_flags[k]] = flag_val[stop_flags[k]]
             /\ threads' = threads]_vars

\* A slot was added next to one that is recording.
C25_Witness ==
    /\ Len(recording_devices) = 2
    /\ recording_devices[1].is_recording /\ recorder_handles[1] # None
    /\ ~recording_devices[2].is_recording /\ recorder_handles[2] = None
    /\ ~flag_val[stop_flags[2]]
    /\ waveform[recording_devices[2].waveform_data] = InitialWaveform

\* The start branch of the group button has run: a slot that was not
\* recording is recording, and no slot came or went.
StartStep ==
    /\ ui.pc = "idle" /\ ui'.pc = "idle"
    /\ Len(recording_devices') = Len(recording_devices)
    /\ \E i \in SlotIdxs :
          ~recording_devices[i].is_recording /\ recording_devices'[i].is_recording

\* C26: when the start branch has run, every slot of the group that was
\* not recording is recording, has a start time, a stop flag that reads
\* false and the handle of a thread of its own that the step spawned.
C26_StartGroupStartsEverySlot ==
    [][StartStep =>
         \A i \in SlotIdxs :
             ~recording_devices[i].is_recording =>
                 /\ recording_devices'[i].is_recording
                 /\ recording_devices'[i].recording_start_time
                 /\ ~flag_val'[stop_flags'[i]]
                 /\ recorder_handles'[i] # None
                 /\ threads[recorder_handles'[i]].pc = "none"
                 /\ threads'[recorder_handles'[i]].pc = "init"
                 /\ threads'[recorder_handles'[i]].stop_flag = stop_flags'[i]
                 /\ threads'[recorder_handles'[i]].waveform
                        = recording_devices'[i].waveform_data
                 /\ \A j \in SlotIdxs :
                       j # i => recorder_handles'[j] # recorder_handles'[i]]_vars

\* Two slots were started by one press: each has its own new thread.
C26_Witness ==
    /\ Len(recording_devices) = 2
    /\ \A i \in 1..2 :
          /\ recording_devices[i].is_recording
          /\ recorder_handles[i] # None
          /\ threads[recorder_handles[i]].pc = "init"
    /\ recorder_handles[1] # recorder_handles[2]

\* C27: while the stop branch waits in the join of one slot's thread, the
\* stop flag of no slot that is still to come in the group has been set.
C27_StopGroupIsSequential ==
    ui.pc = "stop_join" =>
        \A k \in 1..Len(ui.idxs) :
            ui.idxs[k] <= Len(stop_flags) => ~flag_val[stop_flags[ui.idxs[k]]]

\* The stop branch waits for the first slot's thread, which has not
\* ended; the second slot's thread polls on.
C27_Witness ==
    /\ ui.pc = "stop_join" /\ ui.idxs = <<2>>
    /\ ~Terminated(threads, ui.join)
    /\ recording_devices[2].is_recording
    /\ recorder_handles[2] # None
    /\ threads[recorder_handles[2]].pc = "poll"

\* C28: two threads that are alive at the same time and have made their
\* filenames have different ones.
C28_LiveThreadsHaveOwnFile ==
    \A t1 \in Tids, t2 \in Tids :
        (t1 # t2 /\ LiveThread(t1) /\ LiveThread(t2)
            /\ threads[t1].second # 0 /\ threads[t2].second # 0)
            => filename(threads[t1]) # filename(threads[t2])

\* C29: the thread of a slot that is recording and holds its handle reads
\* the slot's own flag, the flag reads false, and the thread has not left
\* its poll loop: whatever an earlier session left in the flag is gone
\* before the thread exists.
C29_RestartReadsFreshFlag ==
    Alive =>
        \A i \in SlotIdxs :
            (recording_devices[i].is_recording /\ recorder_handles[i] # None)
                => /\ threads[recorder_handles[i]].stop_flag = stop_flags[i]
                   /\ ~flag_val[stop_flags[i]]
                   /\ threads[recorder_handles[i]].pc \in {"init", "poll", "aborted"}
                   /\ threads[recorder_handles[i]].finalize_runs = 0

\* A slot records again after a stop (its preview holds a frame of the
\* earlier session, its thread has had none): the thread polls.
C29_Witness ==
    \E i \in SlotIdxs :
        /\ recording_devices[i].is_recording /\ recorder_handles[i] # None
        /\ threads[recorder_handles[i]].pc = "poll"
        /\ threads[recorder_handles[i]].delivered = 0
        /\ waveform[recording_devices[i].waveform_data] # InitialWaveform
        /\ ~StopFlagOf(recorder_handles[i])

\* C31: no step changes the device of a thread that is there before and
\* after it, nor its filename once it has made one; the start branch gives
\* each thread the selection its slot has at the press.
C31_ThreadKeepsDeviceSnapshot ==
    [][/\ \A t \in Tids :
             (threads[t].pc # "none" /\ threads'[t].pc # "none")
                 => /\ threads'[t].device = threads[t].device
                    /\ threads[t].second # 0
                          => filename(threads'[t]) = filename(threads[t])
                    /\ (threads[t].second = 0 /\ threads'[t].second # 0)
                          => filename(threads'[t]).device = threads[t].device
       /\ StartStep =>
             \A i \in SlotIdxs :
                 ~recording_devices[i].is_recording
                     => threads'[recorder_handles'[i]].device
                            = recording_devices[i].device_index]_vars

\* The dropdown of a recording slot was set to another device: the slot's
\* thread polls on with the device and the filename of the press.
C31_Witness ==
    \E i \in SlotIdxs :
        /\ recording_devices[i].is_recording /\ recorder_handles[i] # None
        /\ threads[recorder_handles[i]].pc = "poll"
        /\ threads[recorder_handles[i]].device # recording_devices[i].device_index
        /\ filename(threads[recorder_handles[i]]).device
               = threads[recorder_handles[i]].device
        /\ threads[recorder_handles[i]].sink # <<>>

\* The indices that are not smaller than the number of slots.
PastTheEnd == (Len(recording_devices) + 1)..(MaxSlots + 1)

\* C32: the start branch, the stop branch, the remove handler and the
\* dropdown handler, run on an index that is not smaller than the number
\* of slots, leave slots, flags, handles and threads as they are and do
\* not panic; in a group with other indices the index is skipped.
C32_OutOfRangeIsNoOp ==
    ui.pc = "idle" =>
        \A device_idx \in PastTheEnd :
            /\ StartLoop(Here, <<device_idx>>) = Here
            /\ StopLoop(Here, <<device_idx>>) = Here
            /\ RemoveSteps(Here, device_idx) = Here
            /\ \A i \in 1..MaxDevices : DropdownSteps(Here, device_idx, i) = Here
            /\ ENABLED StartPress(AllIdxs(recording_devices))
                  => StartLoop(Here, Append(AllIdxs(recording_devices), device_idx))
                         = StartLoop(Here, AllIdxs(recording_devices))
            /\ StopLoop(Here, <<device_idx>> \o AllIdxs(recording_devices))
                  = StopLoop(Here, AllIdxs(recording_devices))

\* One slot records and its thread polls: index 1 (the second) is past
\* the end, and the handlers run on it change nothing.
C32_Witness ==
    /\ ui.pc = "idle"
    /\ Len(recording_devices) = 1
    /\ recording_devices[1].is_recording
    /\ recorder_handles[1] # None /\ threads[recorder_handles[1]].pc = "poll"
    /\ StopLoop(Here, <<2>>) = Here
    /\ RemoveSteps(Here, 2) = Here
    /\ DropdownSteps(Here, 2, 1) = Here

\* C33: while no handler runs, a slot has a handle exactly when it is
\* recording; and the start branch stores a handle only where there was
\* none.
C33_HandleIffRecording ==
    /\ [](ui.pc = "idle" =>
             \A i \in SlotIdxs :
                 (recorder_handles[i] # None) <=> recording_devices[i].is_recording)
    /\ [][StartStep =>
             \A i \in SlotIdxs :
                 recorder_handles'[i] # recorder_handles[i]
                     => recorder_handles[i] = None]_vars

\* No handler runs; the first slot is recording and holds the handle of a
\* thread that has ended by itself, the second was added later and has
\* neither.
C33_Witness ==
    /\ ui.pc = "idle"
    /\ Len(recording_devices) = 2
    /\ recording_devices[1].is_recording /\ recorder_handles[1] # None
    /\ threads[recorder_handles[1]].pc = "aborted"
    /\ ~recording_devices[2].is_recording /\ recorder_handles[2] = None

\* C34: while no handler runs, the stop flag of every recording slot
\* reads false.
C34_RecordingMeansFlagFalse ==
    ui.pc = "idle" =>
        \A i \in SlotIdxs :
            recording_devices[i].is_recording => ~flag_val[stop_flags[i]]

\* No handler runs and two slots record, both for the second time (their
\* previews hold frames of sessions that were stopped).
C34_Witness ==
    /\ ui.pc = "idle"
    /\ Len(recording_devices) = 2
    /\ \A i \in 1..2 :
          /\ recording_devices[i].is_recording
          /\ ~flag_val[stop_flags[i]]
          /\ waveform[recording_devices[i].waveform_data] # InitialWaveform
          /\ threads[recorder_handles[i]].delivered = 0

\* C35: the handle at the index of a recording slot is the handle of the
\* thread that was spawned with that slot's preview buffer, and the flag
\* at the index is the flag that thread polls, wherever removes have
\* moved the slot; and a join the stop branch or the remove handler
\* enters is the join of the thread of the slot it has just stopped.
C35_RemoveKeepsAssociation ==
    /\ [](Alive =>
             \A i \in SlotIdxs :
                 (recording_devices[i].is_recording /\ recorder_handles[i] # None)
                     => /\ threads[recorder_handles[i]].waveform
                               = recording_devices[i].waveform_data
                        /\ threads[recorder_handles[i]].stop_flag = stop_flags[i]
                        /\ \A j \in SlotIdxs :
                              j # i => /\ stop_flags[j] # stop_flags[i]
                                       /\ recorder_handles[j] # recorder_handles[i])
    /\ [][(ui.pc = "idle" /\ ui'.pc \in {"stop_join", "remove_join"}) =>
             \E i \in SlotIdxs :
                 /\ recorder_handles[i] = ui'.join
                 /\ threads[ui'.join].waveform = recording_devices[i].waveform_data
                 /\ threads[ui'.join].stop_flag = stop_flags[i]
                 /\ flag_val'[stop_flags[i]]]_vars

\* The first of two recording slots was removed: the second slot (its
\* buffer is the second Arc) is now at the first index and records on.
C35_Witness ==
    /\ ui.pc = "idle"
    /\ Len(recording_devices) = 1
    /\ recording_devices[1].waveform_data = 2
    /\ recording_devices[1].is_recording
    /\ recorder_handles[1] # None
    /\ threads[recorder_handles[1]].pc = "poll"
    /\ threads[recorder_handles[1]].stop_flag = stop_flags[1]

\* A step of thread t or of its callback.
ThreadStep(t) ==
    \/ ThreadInit(t) \/ Poll(t) \/ FinalizeBegin(t) \/ FinalizeEnd(t)
    \/ ThreadExit(t) \/ CbPreview(t) \/ CbWrite(t)

\* C36: while the UI thread waits in a join, the thread it waits for has
\* ended (the join can return) or it or its callback can take a step that
\* changes the state: no cycle of UI thread, supervisor and callback
\* waiting for each other.
C36_JoinedThreadCanProgress ==
    (Alive /\ ui.pc \in {"stop_join", "remove_join"})
        => \/ Terminated(threads, ui.join) /\ ENABLED (StopJoinReturn \/ RemoveJoinReturn)
           \/ ENABLED <<ThreadStep(ui.join)>>_vars

\* The UI thread waits in join for a FLAC session's thread, which holds
\* the accumulator's lock in its finalize, while the session's callback
\* waits for that lock.
C36_Witness ==
    /\ ui.pc = "stop_join"
    /\ threads[ui.join].pc = "encoding"
    /\ threads[ui.join].cb_pc = "write"
    /\ threads[ui.join].format = "Flac"
    /\ ~ENABLED CbWrite(ui.join)
    /\ ENABLED FinalizeEnd(ui.join)

\* A thread is spawned in the step.
SpawnStep == \E t \in Tids : threads[t].pc = "none" /\ threads'[t].pc = "init"

\* C37: a step spawns threads only when no slot is recording; while the
\* stop branch waits in a join every slot that is still recording is one
\* it has yet to come to; and when the stop branch has returned no slot
\* is recording and it has spawned nothing.
C37_GroupButtonToggles ==
    /\ [](ui.pc = "stop_join" =>
             \A i \in SlotIdxs :
                 recording_devices[i].is_recording
                     => \E k \in 1..Len(ui.idxs) : ui.idxs[k] = i)
    /\ [][/\ SpawnStep =>
                /\ ui.pc = "idle"
                /\ \A i \in SlotIdxs : ~recording_devices[i].is_recording
          /\ (ui.pc = "stop_join" \/ ui'.pc = "stop_join") => ~SpawnStep
          /\ (ui.pc = "stop_join" /\ ui'.pc = "idle") =>
                \A i \in 1..Len(recording_devices') :
                    /\ ~recording_devices'[i].is_recording
                    /\ recorder_handles'[i] = None]_vars

\* A slot was added while the first one recorded, and the button was
\* pressed: no handler runs, neither slot records, and the second has
\* never had a thread (its preview is the initial one).
C37_Witness ==
    /\ ui.pc = "idle"
    /\ Len(recording_devices) = 2
    /\ \A i \in 1..2 :
          ~recording_devices[i].is_recording /\ recorder_handles[i] = None
    /\ flag_val[stop_flags[1]] /\ flag_val[stop_flags[2]]
    /\ waveform[recording_devices[1].waveform_data] # InitialWaveform
    /\ waveform[recording_devices[2].waveform_data] = InitialWaveform
    /\ \A t \in Tids : threads[t].pc = "none"

\* C38: the flag of every thread that was spawned and not joined is an
\* element of stop_flags, never a private one, and the handle at its index
\* is the thread's, or the UI thread is joining the thread: a stop or a
\* remove of that index reaches it.
C38_FlagIsInCollection ==
    Alive =>
        \A t \in Tids :
            threads[t].pc # "none" =>
                /\ threads[t].stop_flag # PrivateFlag
                /\ \E i \in 1..Len(stop_flags) :
                      /\ stop_flags[i] = threads[t].stop_flag
                      /\ recorder_handles[i] = t \/ ui.join = t

\* The stop branch has set the flag of the second slot and joins its
\* thread, which has seen the flag and left its poll loop.
C38_Witness ==
    /\ ui.pc = "stop_join"
    /\ Len(stop_flags) = 2
    /\ threads[ui.join].stop_flag = stop_flags[2]
    /\ flag_val[stop_flags[2]]
    /\ threads[ui.join].pc = "finalize"

\* C39: every integer a FLAC session's callback puts in the accumulator
\* lies in the signed range of the bit depth the encoder is given.
C39_FlacSamplesFitBitDepth ==
    (fx.op = "capture" /\ fx.settings_a.audio_format = "Flac") =>
        \A i \in 1..Len(fx.a.sink) :
            /\ fx.a.sink[i] >= BitsMin(bits_per_sample(fx.settings_a))
            /\ fx.a.sink[i] <= BitsMax(bits_per_sample(fx.settings_a))
====
